---- MODULE Spec2Model ----
(***************************************************************************)
(* A model of the Tie resource engine (src/tie/core.py): the loader/merger  *)
(* (load, _load_yaml, _process_node), the navigator (__getattr__,           *)
(* __getitem__, __iter__, __copy__, _extract_variables), the locale matcher *)
(* (_get_best_locale_match, _get_translation) and the renderer (__call__,   *)
(* set_locale, render_tree).                                                *)
(*                                                                         *)
(* Python values are tagged records of one shape, [t, s, d]:                *)
(*   t = "str"  : s is the text, a sequence of one-character strings        *)
(*   t = "int"  : s is the decimal text of the number (str(value))          *)
(*   t = "bool" : s is the text "True" or "False"                           *)
(*   t = "list" : s is the sequence of the list's (string) elements         *)
(*   t = "dict" : d is the sequence of the items [k, v], in insertion order *)
(*   t = "none" : Python's None                                             *)
(* Dictionary keys, paths and locale codes are TLA+ strings; what the code  *)
(* reads off their characters (a leading "+" or "$", the subtags between    *)
(* "-", the lower-case form, the characters of a variable's name) is given  *)
(* by the tables KeyParts, Split, Lower and Chars.                          *)
(***************************************************************************)
EXTENDS Integers, Sequences, FiniteSets, TLC

\* ------------------------------------------------------------------ values

None == [t |-> "none", s |-> <<>>, d |-> <<>>]
Str(cs) == [t |-> "str", s |-> cs, d |-> <<>>]
IntV(cs) == [t |-> "int", s |-> cs, d |-> <<>>]
BoolFalse == [t |-> "bool", s |-> <<"F", "a", "l", "s", "e">>, d |-> <<>>]
ListV(xs) == [t |-> "list", s |-> xs, d |-> <<>>]
Dict(items) == [t |-> "dict", s |-> <<>>, d |-> items]
It(k, v) == [k |-> k, v |-> v]

IsDict(v) == v.t = "dict"
\* isinstance(v, Primitive): str | int | float | bool
IsPrimitive(v) == v.t \in {"str", "int", "bool"}

\* bool(v), Python's truth value
Truthy(v) ==
    CASE v.t = "none" -> FALSE
      [] v.t = "str"  -> v.s # <<>>
      [] v.t = "int"  -> v.s # <<"0">>
      [] v.t = "bool" -> v.s # <<"F", "a", "l", "s", "e">>
      [] v.t = "list" -> v.s # <<>>
      [] v.t = "dict" -> v.d # <<>>

\* str(v) of a primitive or of None, as characters
StrOf(v) == IF v.t = "none" THEN <<"N", "o", "n", "e">> ELSE v.s

\* ------------------------------------------------- ordered dictionaries

Range(f) == {f[i] : i \in DOMAIN f}
Keys(items) == {items[i].k : i \in DOMAIN items}
KeySeq(items) == [i \in DOMAIN items |-> items[i].k]
HasKey(items, k) == \E i \in DOMAIN items : items[i].k = k
\* dict.get(k): the value, or None
GetKey(items, k) ==
    IF HasKey(items, k)
    THEN items[CHOOSE i \in DOMAIN items : items[i].k = k].v
    ELSE None
\* dict[k] = v: in place when the key exists, appended otherwise
SetKey(items, k, v) ==
    IF HasKey(items, k)
    THEN [i \in DOMAIN items |-> IF items[i].k = k THEN It(k, v) ELSE items[i]]
    ELSE Append(items, It(k, v))
\* del dict[k] / dict.pop(k, default)
DelKey(items, k) == SelectSeq(items, LAMBDA it : it.k # k)

\* ------------------------------------------------- what the code reads
\* ------------------------------------------------- off a string's characters

\* code.split("-"): the subtags of every locale code (and text-leaf key) used
Split ==
    ("zh-Hant-HK" :> <<"zh", "Hant", "HK">>) @@ ("zh-Hant" :> <<"zh", "Hant">>) @@
    ("zh" :> <<"zh">>) @@ ("ZH-hant" :> <<"ZH", "hant">>) @@
    ("el" :> <<"el">>) @@ ("el-GR" :> <<"el", "GR">>) @@
    ("en" :> <<"en">>) @@ ("EN" :> <<"EN">>) @@ ("en-AU" :> <<"en", "AU">>) @@
    ("en-CA" :> <<"en", "CA">>) @@ ("en-US" :> <<"en", "US">>) @@
    ("fr" :> <<"fr">>) @@ ("de" :> <<"de">>) @@ ("wrap" :> <<"wrap">>) @@
    ("e_" :> <<"e_">>) @@ ("" :> <<"">>)

\* subtag.lower()
Lower ==
    ("zh" :> "zh") @@ ("ZH" :> "zh") @@ ("Hant" :> "hant") @@ ("hant" :> "hant") @@
    ("HK" :> "hk") @@ ("el" :> "el") @@ ("GR" :> "gr") @@ ("en" :> "en") @@
    ("EN" :> "en") @@ ("AU" :> "au") @@ ("CA" :> "ca") @@ ("US" :> "us") @@
    ("fr" :> "fr") @@ ("de" :> "de") @@ ("wrap" :> "wrap") @@ ("e_" :> "e_") @@
    ("" :> "")

\* len(subtag), and whether it is made of the letters a-z, A-Z only
SubtagLen ==
    ("zh" :> 2) @@ ("ZH" :> 2) @@ ("Hant" :> 4) @@ ("hant" :> 4) @@ ("HK" :> 2) @@
    ("el" :> 2) @@ ("GR" :> 2) @@ ("en" :> 2) @@ ("EN" :> 2) @@ ("AU" :> 2) @@
    ("CA" :> 2) @@ ("US" :> 2) @@ ("fr" :> 2) @@ ("de" :> 2) @@ ("wrap" :> 4) @@
    ("e_" :> 2) @@ ("" :> 0)
SubtagAlpha == [x \in DOMAIN SubtagLen |-> x # "e_"]

\* code.lower().split("-")
LowerParts(code) == [i \in DOMAIN Split[code] |-> Lower[Split[code][i]]]

\* ISO_language_code_regex.match(code): ^[a-z]{2,3}(-[a-zA-Z]{2,8})*$
ISO_language_code_regex(code) ==
    /\ code \in DOMAIN Split
    /\ LET p == Split[code] IN
        /\ SubtagAlpha[p[1]] /\ Lower[p[1]] = p[1] /\ SubtagLen[p[1]] \in 2..3
        /\ \A i \in 2..Len(p) : SubtagAlpha[p[i]] /\ SubtagLen[p[i]] \in 2..8

\* ------------------------------------------------------- locale matcher

\* _get_best_locale_match returns None
NoMatch == "<None>"

\* available_lower = {x.lower(): x for x in available}: keyed by the
\* lower-case code (here its subtags), first insertion fixes the position,
\* the last value wins
RECURSIVE AvailableLower(_)
AvailableLower(available) ==
    IF available = <<>> THEN <<>>
    ELSE LET n == Len(available) IN
         SetKey(AvailableLower(SubSeq(available, 1, n - 1)),
                LowerParts(available[n]), available[n])

IsPrefix(p, q) == Len(p) <= Len(q) /\ SubSeq(q, 1, Len(p)) = p

\* for c in available_lower: if c.startswith(prefix + "-"): return ...
\* (prefix and c as subtags: c has more subtags and begins with prefix's)
FirstChild(avl, prefix) ==
    LET hits == {i \in DOMAIN avl : Len(avl[i].k) > Len(prefix) /\ IsPrefix(prefix, avl[i].k)}
    IN IF hits = {} THEN NoMatch
       ELSE avl[CHOOSE i \in hits : \A j \in hits : i <= j].v

\* for c in available_lower: if c.startswith(base + "-"): return ...
FirstSameBase(avl, base) == FirstChild(avl, <<base>>)

\* ExactOrParent as it would be if the shortest ancestor were tried first
RECURSIVE ExactOrParentShortestFirst(_, _, _)
ExactOrParentShortestFirst(parts, avl, n) ==
    LET RECURSIVE Up(_)
        Up(m) == IF m > n THEN NoMatch
                 ELSE IF HasKey(avl, SubSeq(parts, 1, m))
                 THEN GetKey(avl, SubSeq(parts, 1, m))
                 ELSE Up(m + 1)
    IN Up(1)

\* while parts: candidate = "-".join(parts); ...; parts.pop()
\* (n is the number of subtags still in parts)
RECURSIVE ExactOrParent(_, _, _)
ExactOrParent(parts, avl, n) ==
    IF n = 0 THEN NoMatch
    ELSE IF HasKey(avl, SubSeq(parts, 1, n)) THEN GetKey(avl, SubSeq(parts, 1, n))
    ELSE ExactOrParent(parts, avl, n - 1)

\* Tie._get_best_locale_match(requested, available)
BestLocaleMatch(requested, available) ==
    LET parts == LowerParts(requested)
        avl == AvailableLower(available)
        exact == ExactOrParent(parts, avl, Len(parts))
        \* c.startswith(requested.lower() + "-")
        child == FirstChild(avl, parts)
        base == FirstSameBase(avl, parts[1])
    IN IF exact # NoMatch THEN exact
       ELSE IF child # NoMatch THEN child
       ELSE base

\* Tie._get_translation(node, locales)
RECURSIVE TranslationFrom(_, _, _)
TranslationFrom(node, locales, i) ==
    IF i > Len(locales) THEN None
    ELSE LET match == BestLocaleMatch(locales[i], KeySeq(node.d)) IN
         IF match # NoMatch /\ match # ""
         THEN GetKey(node.d, match)
         ELSE TranslationFrom(node, locales, i + 1)
GetTranslation(node, locales) ==
    IF ~IsDict(node) THEN node ELSE TranslationFrom(node, locales, 1)

\* ------------------------------------------------------------- renderer

\* the characters of a key or variable name
Chars ==
    ("name" :> <<"n", "a", "m", "e">>) @@ ("who" :> <<"w", "h", "o">>) @@
    ("n" :> <<"n">>) @@ ("k" :> <<"k">>) @@ ("j" :> <<"j">>) @@ ("g" :> <<"g">>) @@
    ("a" :> <<"a">>) @@ ("z" :> <<"z">>) @@ ("t" :> <<"t">>) @@
    ("en" :> <<"e", "n">>) @@ ("fr" :> <<"f", "r">>) @@ ("de" :> <<"d", "e">>) @@
    ("wrap" :> <<"w", "r", "a", "p">>) @@
    ("+a" :> <<"+", "a">>) @@ ("+b" :> <<"+", "b">>) @@
    ("$n" :> <<"$", "n">>) @@ ("$who" :> <<"$", "w", "h", "o">>)

WrapText == <<"w", "r", "a", "p", "_", "t", "e", "x", "t">>

RECURSIVE SkipSpaces(_, _)
SkipSpaces(s, i) == IF i <= Len(s) /\ s[i] = " " THEN SkipSpaces(s, i + 1) ELSE i

\* where a match of the pattern "{ *" + name + " *}" that starts at s[i]
\* ends, or 0 when none starts there
MatchEnd(s, i, name) ==
    IF s[i] # "{" THEN 0
    ELSE LET j == SkipSpaces(s, i + 1)
             k == SkipSpaces(s, j + Len(name))
         IN IF /\ j + Len(name) - 1 <= Len(s)
               /\ SubSeq(s, j, j + Len(name) - 1) = name
               /\ k <= Len(s) /\ s[k] = "}"
            THEN k ELSE 0

\* re.sub("{ *" + name + " *}", repl, s): every match, left to right
RECURSIVE ReSubFrom(_, _, _, _)
ReSubFrom(name, repl, s, i) ==
    IF i > Len(s) THEN <<>>
    ELSE LET e == MatchEnd(s, i, name) IN
         IF e > 0 THEN repl \o ReSubFrom(name, repl, s, e + 1)
         ELSE <<s[i]>> \o ReSubFrom(name, repl, s, i + 1)
ReSub(name, repl, s) == ReSubFrom(name, repl, s, 1)

\* the index of the first "}" of s at or after i, or 0
RECURSIVE FindClose(_, _)
FindClose(s, i) ==
    IF i > Len(s) THEN 0 ELSE IF s[i] = "}" THEN i ELSE FindClose(s, i + 1)

\* s.format_map(SafeDict({"wrap_text": text})): "{{" and "}}" are escapes, the
\* field {wrap_text} is replaced by text, any other field {key} by itself
\* (SafeDict.__missing__); a lone brace is a ValueError
RECURSIVE FormatMapFrom(_, _, _)
FormatMapFrom(s, text, i) ==
    IF i > Len(s) THEN [err |-> "", s |-> <<>>]
    ELSE IF s[i] = "{" /\ i < Len(s) /\ s[i + 1] = "{"
    THEN LET r == FormatMapFrom(s, text, i + 2) IN [r EXCEPT !.s = <<"{">> \o @]
    ELSE IF s[i] = "}" /\ i < Len(s) /\ s[i + 1] = "}"
    THEN LET r == FormatMapFrom(s, text, i + 2) IN [r EXCEPT !.s = <<"}">> \o @]
    ELSE IF s[i] = "}" THEN [err |-> "ValueError", s |-> <<>>]
    ELSE IF s[i] = "{"
    THEN LET c == FindClose(s, i + 1) IN
         IF c = 0 \/ "{" \in Range(SubSeq(s, i + 1, c - 1))
         THEN [err |-> "ValueError", s |-> <<>>]
         ELSE LET field == SubSeq(s, i + 1, c - 1)
                  r == FormatMapFrom(s, text, c + 1)
              IN [r EXCEPT !.s = (IF field = WrapText THEN text
                                  ELSE <<"{">> \o field \o <<"}">>) \o @]
    ELSE LET r == FormatMapFrom(s, text, i + 1) IN [r EXCEPT !.s = <<s[i]>> \o @]
FormatMap(s, text) == FormatMapFrom(s, text, 1)

\* ApplyWrap as it would be if the translation were left out of the template
ApplyWrapDropsText(wrap, translation) ==
    FormatMap(ReSub(<<>>, <<"{">> \o WrapText \o <<"}">>, wrap), <<>>)

\* re.sub("{ *}", "{wrap_text}", wrap).format_map(SafeDict({"wrap_text": translation}))
ApplyWrap(wrap, translation) ==
    FormatMap(ReSub(<<>>, <<"{">> \o WrapText \o <<"}">>, wrap), StrOf(translation))

\* (lambda d: d.update(vars) or d)(self._variables.copy())
RECURSIVE UpdateDict(_, _)
UpdateDict(items, more) ==
    IF more = <<>> THEN items
    ELSE UpdateDict(SetKey(items, Head(more).k, Head(more).v), Tail(more))

\* self._variables[value[1:]]: the variable whose name is the text after "$"
VarRef(variables, value) ==
    LET hits == {i \in DOMAIN variables : Chars[variables[i].k] = Tail(value.s)}
    IN IF hits = {} THEN [err |-> "KeyError", v |-> None]
       ELSE [err |-> "", v |-> variables[CHOOSE i \in hits : TRUE].v]

\* the loop of Tie.__call__ over the effective variable map, from entry i
RECURSIVE SubstituteFrom(_, _, _, _, _)
SubstituteFrom(translation, effective, variables, locales, i) ==
    IF i > Len(effective) THEN [err |-> "", val |-> translation]
    ELSE LET value == effective[i].v
             ref == IF value.t = "str" /\ value.s # <<>> /\ Head(value.s) = "$"
                    THEN VarRef(variables, value)
                    ELSE [err |-> "", v |-> value]
         IN IF ref.err # "" THEN [err |-> ref.err, val |-> None]
            \* re.sub on a translation that is no string
            ELSE IF translation.t # "str" THEN [err |-> "TypeError", val |-> None]
            ELSE SubstituteFrom(
                    Str(ReSub(Chars[effective[i].k],
                              StrOf(GetTranslation(ref.v, locales)),
                              translation.s)),
                    effective, variables, locales, i + 1)

\* Tie.__call__(self, **vars) on a node with content node, returning
\* [err, val]: err is "" and val the returned value, or err names the exception
Call(node, is_section_mode, locale, default_locale, variables, vars) ==
    IF is_section_mode THEN [err |-> "TypeError", val |-> None]
    ELSE IF IsPrimitive(node) THEN [err |-> "", val |-> Str(StrOf(node))]
    ELSE
      LET locales == <<locale, default_locale>>
          found == GetTranslation(node, locales)
          wrap == GetKey(node.d, "wrap")
          wrapped == IF ~Truthy(wrap) THEN [err |-> "", s |-> <<>>]
                     ELSE IF wrap.t # "str" THEN [err |-> "TypeError", s |-> <<>>]
                     ELSE ApplyWrap(wrap.s, found)
          translation == IF Truthy(wrap) THEN Str(wrapped.s) ELSE found
      IN IF wrapped.err # "" THEN [err |-> wrapped.err, val |-> None]
         ELSE SubstituteFrom(translation, UpdateDict(variables, vars),
                             variables, locales, 1)

\* --------------------------------------------------------------- state

VARIABLES
    fs,              \* the documents on disk: path -> parsed document
    arg,             \* the constructor's arguments
    _node,           \* the root instance's self._node (a dict value)
    _variables,      \* the dict objects made at core.py:50, by object id
    _merge_conflict, \* the root instance's self._merge_conflict
    _default_locale, \* the root instance's self._default_locale
    _locale,         \* the root instance's self._locale ("" before it is set)
    _loaded_files,   \* self._loaded_files
    version,         \* self.version (0 before it is set)
    nodes,           \* the node copies made by navigation and set_locale
    loads,           \* how many load() calls were made
    last,            \* the last call: its arguments, the state before it, its outcome
    hist,            \* the documents merged so far, and how the last load() ended
    m,               \* locale matcher run: requested, available, result
    r                \* renderer run: the node, its locales and variables, the outcome

vars == <<fs, arg, _node, _variables, _merge_conflict, _default_locale, _locale,
          _loaded_files, version, nodes, loads, last, hist, m, r>>

\* ---------------------------------------------------------------- keys

\* a key's leading "+" or "$" (or "") and the rest of it
KeyParts ==
    ("k" :> <<"", "k">>) @@ ("j" :> <<"", "j">>) @@ ("g" :> <<"", "g">>) @@
    ("a" :> <<"", "a">>) @@ ("z" :> <<"", "z">>) @@ ("t" :> <<"", "t">>) @@
    ("n" :> <<"", "n">>) @@ ("who" :> <<"", "who">>) @@
    ("en" :> <<"", "en">>) @@ ("fr" :> <<"", "fr">>) @@ ("de" :> <<"", "de">>) @@
    ("wrap" :> <<"", "wrap">>) @@
    ("+a" :> <<"+", "a">>) @@ ("+b" :> <<"+", "b">>) @@ ("+t" :> <<"+", "t">>) @@
    ("+k" :> <<"+", "k">>) @@ ("+z" :> <<"+", "z">>) @@ ("+g" :> <<"+", "g">>) @@
    ("+j" :> <<"+", "j">>) @@
    ("$n" :> <<"$", "n">>) @@ ("$who" :> <<"$", "who">>) @@
    ("$import" :> <<"$", "import">>)

\* key.startswith(sigil); the keys outside the table (longer locale codes)
\* start with a letter
StartsWith(key, sigil) == key \in DOMAIN KeyParts /\ KeyParts[key][1] = sigil
\* key[1:] of a key that starts with "+" or "$"
Rest(key) == KeyParts[key][2]
\* "+" + name; "+?" stands for the "+" form of a name no document uses
Plus(name) ==
    IF \E key \in DOMAIN KeyParts : KeyParts[key] = <<"+", name>>
    THEN CHOOSE key \in DOMAIN KeyParts : KeyParts[key] = <<"+", name>>
    ELSE "+?"
\* key.lstrip("+")
LStripPlus(key) == IF StartsWith(key, "+") THEN Rest(key) ELSE key

\* part in text, for two strings
IsSubstring(part, text) ==
    \E i \in 1..(Len(text) + 1) :
        i + Len(part) - 1 <= Len(text) /\ SubSeq(text, i, i + Len(part) - 1) = part

\* -------------------------------------------------------------- loader

\* TIE_VERSION (imported at core.py:10; 0.1.0, setup.py:5), as its minor number
TIE_VERSION == 1

\* the interpreter's limit on nested calls (sys.getrecursionlimit()), in frames
RecursionLimit == 16

\* Path.exists() / open(path): the documents live in one directory, a path is a file name
Exists(path) == path \in DOMAIN fs /\ fs[path].exists

Fail(target, st, err) == [target |-> target, st |-> st, err |-> err]
Done(target, st) == [target |-> target, st |-> st, err |-> ""]

\* key in target_node, for the kinds of value a target can be
KeyIn(key, target) ==
    IF IsDict(target) THEN HasKey(target.d, key) ELSE IsSubstring(Chars[key], target.s)

RECURSIVE LoadYaml(_, _, _, _)
RECURSIVE ProcessNode(_, _, _, _, _)
RECURSIVE ImportAll(_, _, _, _, _, _)
RECURSIVE MergeItems(_, _, _, _, _, _)

\* MergeLeaf as it would be if 'ignore' were treated like 'override'
MergeLeafIgnoreOverrides(target, key, value, st) ==
    IF target.t \in {"int", "bool"} THEN Fail(target, st, "TypeError")
    ELSE IF KeyIn(key, target) /\ st.mc = "raise" THEN Fail(target, st, "MergeConflict")
    ELSE IF ~IsDict(target) THEN Fail(target, st, "TypeError")
    ELSE Done(Dict(SetKey(target.d, key, value)), st)

\* core.py:154-158, one leaf of current_node merged into target_node
MergeLeaf(target, key, value, st) ==
    \* key in 5: argument of type 'int' is not iterable
    IF target.t \in {"int", "bool"} THEN Fail(target, st, "TypeError")
    ELSE IF KeyIn(key, target) /\ st.mc = "raise" THEN Fail(target, st, "MergeConflict")
    ELSE IF KeyIn(key, target) /\ st.mc = "ignore" THEN Done(target, st)
    \* 'str' object does not support item assignment
    ELSE IF ~IsDict(target) THEN Fail(target, st, "TypeError")
    ELSE Done(Dict(SetKey(target.d, key, value)), st)

\* target_node[key] = target_node.get(key, {})
SetDefault(items, key) == IF HasKey(items, key) THEN items ELSE SetKey(items, key, Dict(<<>>))

\* the loop goes on after item i, unless merging item i failed
MergeRest(one, current, i, path, depth) ==
    IF one.err # "" THEN one
    ELSE MergeItems(one.target, current, i + 1, path, one.st, depth)

\* target_node[key] is the dict that self._process_node merged into
MergeSub(items, sub, current, i, path, depth) ==
    MergeRest([sub EXCEPT !.target = Dict(SetKey(items, current[i].k, sub.target))],
              current, i, path, depth)

\* self._process_node(target_node[key], value, current_path)
MergeSection(items, current, i, path, st, depth) ==
    MergeSub(items,
             ProcessNode(GetKey(items, current[i].k), current[i].v.d, path, st, depth + 1),
             current, i, path, depth)

\* core.py:148-158, the loop over current_node.items() from item i
MergeItems(target, current, i, path, st, depth) ==
    IF i > Len(current) THEN Done(target, st)
    ELSE IF ~IsDict(current[i].v)
    THEN MergeRest(MergeLeaf(target, current[i].k, current[i].v, st), current, i, path, depth)
    \* target_node.get: 'str' object has no attribute 'get'
    ELSE IF ~IsDict(target) THEN Fail(target, st, "AttributeError")
    ELSE MergeSection(SetDefault(target.d, current[i].k), current, i, path, st, depth)

\* the loop goes on after import i, unless loading it failed
ImportRest(sub, imports, i, path, depth) ==
    IF sub.err # "" THEN sub
    ELSE ImportAll(imports, i + 1, sub.target, path, sub.st, depth)

\* core.py:140-146, the loop over imports from entry i; the target of each
\* nested load is current_node
ImportAll(imports, i, current, path, st, depth) ==
    IF i > Len(imports) THEN Done(current, st)
    ELSE IF ~Exists(imports[i]) THEN Fail(current, st, "FileNotFound")
    ELSE ImportRest(LoadYaml(imports[i], current, st, depth + 1), imports, i, path, depth)

\* core.py:148, current_node with its imports merged in goes into target_node
MergeImported(target, imp, path, depth) ==
    IF imp.err # "" THEN Fail(target, imp.st, imp.err)
    ELSE MergeItems(target, imp.target.d, 1, path, imp.st, depth)

\* imports = current_node.pop("$import", [])
Imports(current) ==
    IF HasKey(current, "$import") THEN GetKey(current, "$import") ELSE ListV(<<>>)

\* Tie._process_node(target_node, current_node, current_path)
ProcessNode(target, current, path, st, depth) ==
    IF depth > RecursionLimit THEN Fail(target, st, "RecursionError")
    ELSE IF Imports(current).t # "list" THEN Fail(target, st, "InvalidImport")
    ELSE MergeImported(target,
                       ImportAll(Imports(current).s, 1, Dict(DelKey(current, "$import")),
                                 path, st, depth),
                       path, depth)

\* for section in parent_section.strip().split("."): content = {"+" + section: content}
RECURSIVE WrapSections(_, _)
WrapSections(sections, content) ==
    IF sections = <<>> THEN content
    ELSE WrapSections(Tail(sections), <<It(Plus(Head(sections)), Dict(content))>>)

\* core.py:106, self._merge_conflict or config.get("merge_conflict", "override")
EffectivePolicy(own, declared) ==
    IF own # "" THEN own ELSE IF declared # "" THEN declared ELSE "override"

\* core.py:97, config.get("version", TIE_VERSION)
DocVersion(doc) == IF doc.version = 0 THEN TIE_VERSION ELSE doc.version

\* core.py:118, self._default_locale or config.get("default_locale", "en-US")
DefaultLocale(own, declared) ==
    IF own # "" THEN own ELSE IF declared # "" THEN declared ELSE "en-US"

\* core.py:97, the instance once the version is read
Versioned(path, st) == [st EXCEPT !.version = DocVersion(fs[path])]

\* core.py:111, the instance when the document is merged
Merging(path, st) ==
    [st EXCEPT !.version = DocVersion(fs[path]),
               !.mc = EffectivePolicy(st.mc, fs[path].merge_conflict),
               !.log = Append(@, [path |-> path,
                                  policy |-> EffectivePolicy(st.mc, fs[path].merge_conflict)])]

\* core.py:119-121, self.set_locale(inplace=True); self._loaded_files.add(path)
LocaleSet(path, target, st) ==
    IF ~ISO_language_code_regex(st.dl) THEN Fail(target, st, "InvalidLocale")
    ELSE Done(target, [st EXCEPT !.loc = st.dl, !.loaded = @ \cup {path}])

\* core.py:118-121, after the document was merged
LoadMerged(path, merged) ==
    IF merged.err # "" THEN merged
    ELSE LocaleSet(path, merged.target,
                   [merged.st EXCEPT !.dl = DefaultLocale(@, fs[path].default_locale)])

\* Tie._load_yaml(path, target_node); st holds the instance's fields
\* [mc, dl, loc, loaded, version] and log, the documents merged so far
LoadYaml(path, target, st, depth) ==
    IF depth > RecursionLimit THEN Fail(target, st, "RecursionError")
    ELSE IF path \in st.loaded THEN Fail(target, st, "CyclicImport")
    ELSE IF ~Exists(path) THEN Fail(target, st, "FileNotFound")
    ELSE IF ~fs[path].yaml_ok THEN Fail(target, st, "InvalidYAML")
    ELSE IF DocVersion(fs[path]) > TIE_VERSION
    THEN Fail(target, Versioned(path, st), "VersionError")
    ELSE IF EffectivePolicy(st.mc, fs[path].merge_conflict) \notin {"raise", "override", "ignore"}
    THEN Fail(target, Versioned(path, st), "UnknownPolicy")
    ELSE LoadMerged(path,
                    ProcessNode(target, WrapSections(fs[path].section, fs[path].content),
                                path, Merging(path, st), depth + 1))

\* ----------------------------------------------------- nodes and the tree

\* The merged tree is a tree of dict objects without sharing (_process_node
\* makes a new dict for every nested dict it merges), so a node's self._node,
\* a reference to one of these dicts, is the path of keys that leads to it.
RECURSIVE At(_, _)
At(tree, path) == IF path = <<>> THEN tree ELSE At(GetKey(tree.d, Head(path)), Tail(path))

RECURSIVE PutAt(_, _, _)
PutAt(tree, path, value) ==
    IF path = <<>> THEN value
    ELSE Dict(SetKey(tree.d, Head(path),
                     PutAt(GetKey(tree.d, Head(path)), Tail(path), value)))

\* the id of the dict object made at core.py:50
RootVars == 1

\* the root instance as a node
Root == [path |-> <<>>, section |-> TRUE, locale |-> _locale,
         default_locale |-> _default_locale, variables |-> RootVars]
NodeRefs == 0..Len(nodes)
Node(i) == IF i = 0 THEN Root ELSE nodes[i]

\* Tie.__copy__: node.__dict__.update(self.__dict__), every field of the copy
\* refers to the same object as the original's
Copy(node) == node

\* Tie._extract_variables on a dict content, from item i of its copy
RECURSIVE ExtractFrom(_, _, _, _)
ExtractFrom(copy, i, content, variables) ==
    IF i > Len(copy) THEN [content |-> content, variables |-> variables]
    ELSE IF StartsWith(copy[i].k, "$")
    THEN ExtractFrom(copy, i + 1, DelKey(content, copy[i].k),
                     SetKey(variables, Rest(copy[i].k), copy[i].v))
    ELSE ExtractFrom(copy, i + 1, content, variables)
ExtractVariables(content, variables) == ExtractFrom(content, 1, content, variables)

\* Tie.__getattr__(self, name) on node, in the heap [tree, variables];
\* returns [err, made, tree, variables]
GetAttr(node, name, tree, variables) ==
    LET none == [err |-> "", made |-> node, tree |-> tree, variables |-> variables] IN
    IF ~node.section THEN [none EXCEPT !.err = "TypeError"]
    ELSE
      LET content == At(tree, node.path).d
          section == GetKey(content, Plus(name))
          text == GetKey(content, name)
      IN IF ~(Truthy(section) \/ Truthy(text)) THEN [none EXCEPT !.err = "NotFound"]
         ELSE
           LET key == IF Truthy(section) THEN Plus(name) ELSE name
               subnode == [Copy(node) EXCEPT !.section = Truthy(section),
                                             !.path = Append(node.path, key)]
               value == GetKey(content, key)
           IN \* self._node.copy(): 'str' object has no attribute 'copy'
              IF ~IsDict(value) THEN [none EXCEPT !.err = "AttributeError"]
              ELSE LET ex == ExtractVariables(value.d, variables[subnode.variables]) IN
                   [err |-> "", made |-> subnode,
                    tree |-> PutAt(tree, subnode.path, Dict(ex.content)),
                    variables |-> [variables EXCEPT ![subnode.variables] = ex.variables]]

\* Tie.set_locale(self, locale, inplace=False); "" is locale=None
SetLocaleOf(node, locale) ==
    LET chosen == IF locale # "" THEN locale ELSE node.default_locale IN
    IF ~ISO_language_code_regex(chosen) THEN [err |-> "InvalidLocale", made |-> node]
    ELSE [err |-> "", made |-> [Copy(node) EXCEPT !.locale = chosen]]

\* Tie.__call__ of a node; reading self._locale before any load set it goes
\* through __getattr__, which raises on a text node
CallNode(node, overrides, tree, variables) ==
    IF node.section THEN [err |-> "TypeError", val |-> None]
    ELSE IF IsDict(At(tree, node.path)) /\ node.locale = ""
    THEN [err |-> "TypeError", val |-> None]
    ELSE Call(At(tree, node.path), node.section, node.locale, node.default_locale,
              variables[node.variables], overrides)

\* the iteration goes on after key i, unless self[key] failed
RECURSIVE IterFrom(_, _, _, _, _)
IterRest(got, node, keys, i) ==
    IF got.err # "" THEN [err |-> got.err, tree |-> got.tree, variables |-> got.variables]
    ELSE IterFrom(node, keys, i + 1, got.tree, got.variables)

\* Tie.__iter__, consumed to its end: for key in self._node: ... yield self[key]
IterFrom(node, keys, i, tree, variables) ==
    IF i > Len(keys) THEN [err |-> "", tree |-> tree, variables |-> variables]
    ELSE IF StartsWith(keys[i], "+") \/ StartsWith(keys[i], "$")
    THEN IterFrom(node, keys, i + 1, tree, variables)
    ELSE IterRest(GetAttr(node, keys[i], tree, variables), node, keys, i)
Iterate(node, tree, variables) ==
    IF ~node.section THEN [err |-> "TypeError", tree |-> tree, variables |-> variables]
    ELSE IterFrom(node, KeySeq(At(tree, node.path).d), 1, tree, variables)

\* Tie.render_tree(self, one_locale_only, **vars); returns [err, val, tree, variables]
RECURSIVE RenderTreeOf(_, _, _, _, _)
RECURSIVE RenderSection(_, _, _, _, _, _, _, _)
RECURSIVE RenderLocales(_, _, _, _, _, _, _)

\* return self(**vars)
Rendered(c, tree, variables) ==
    [err |-> c.err, val |-> c.val, tree |-> tree, variables |-> variables]

RenderTreeOf(node, one_locale_only, overrides, tree, variables) ==
    IF node.section
    THEN RenderSection(node, KeySeq(At(tree, node.path).d), 1, <<>>,
                       one_locale_only, overrides, tree, variables)
    ELSE IF one_locale_only
    THEN Rendered(CallNode(node, overrides, tree, variables), tree, variables)
    ELSE RenderLocales(node, KeySeq(At(tree, node.path).d), 1, <<>>,
                       overrides, tree, variables)

\* the comprehension goes on after key i, unless its render_tree failed
RenderSectionRest(sub, node, keys, i, out, one_locale_only, overrides) ==
    IF sub.err # "" THEN sub
    ELSE RenderSection(node, keys, i + 1, SetKey(out, LStripPlus(keys[i]), sub.val),
                       one_locale_only, overrides, sub.tree, sub.variables)

\* self[clean_key].render_tree(one_locale_only, **vars)
RenderSub(got, node, keys, i, out, one_locale_only, overrides) ==
    IF got.err # ""
    THEN [err |-> got.err, val |-> None, tree |-> got.tree, variables |-> got.variables]
    ELSE RenderSectionRest(RenderTreeOf(got.made, one_locale_only, overrides,
                                        got.tree, got.variables),
                           node, keys, i, out, one_locale_only, overrides)

\* {clean_key: self[clean_key].render_tree(...) for key in self._node if clean_key}
RenderSection(node, keys, i, out, one_locale_only, overrides, tree, variables) ==
    IF i > Len(keys)
    THEN [err |-> "", val |-> Dict(out), tree |-> tree, variables |-> variables]
    ELSE RenderSub(GetAttr(node, LStripPlus(keys[i]), tree, variables),
                   node, keys, i, out, one_locale_only, overrides)

\* the comprehension goes on after key i, unless its rendering failed
RenderLocalesRest(c, node, keys, i, out, overrides, tree, variables) ==
    IF c.err # "" THEN [err |-> c.err, val |-> None, tree |-> tree, variables |-> variables]
    ELSE RenderLocales(node, keys, i + 1, SetKey(out, keys[i], Str(StrOf(c.val))),
                       overrides, tree, variables)

\* {key: str(self.set_locale(key)(**vars)) for key in self._node if regex.match(key)}
RenderLocales(node, keys, i, out, overrides, tree, variables) ==
    IF i > Len(keys)
    THEN [err |-> "", val |-> Dict(out), tree |-> tree, variables |-> variables]
    ELSE IF ~ISO_language_code_regex(keys[i])
    THEN RenderLocales(node, keys, i + 1, out, overrides, tree, variables)
    ELSE RenderLocalesRest(CallNode(SetLocaleOf(node, keys[i]).made, overrides,
                                    tree, variables),
                           node, keys, i, out, overrides, tree, variables)

\* ------------------------------------------------------------ documents

\* a parsed document: its tie block (0, <<>> and "" are "not declared") and
\* its content
Doc(ver, section, merge_conflict, default_locale, content) ==
    [exists |-> TRUE, yaml_ok |-> TRUE, version |-> ver, section |-> section,
     merge_conflict |-> merge_conflict, default_locale |-> default_locale,
     content |-> content]
Plain(content) == Doc(0, <<>>, "", "", content)
NoFile == [Plain(<<>>) EXCEPT !.exists = FALSE]
NotYaml == [Plain(<<>>) EXCEPT !.yaml_ok = FALSE]

HiN == Str(<<"H", "i", " ", "{", "n", "}">>)
LeafHi == Dict(<<It("en", HiN)>>)

\* the documents a.yaml may be
PoolA == {
    Plain(<<It("k", Str(<<"A">>)), It("z", IntV(<<"0">>)), It("a", Str(<<>>)),
            It("+a", Dict(<<It("$n", Str(<<"S", "a", "m">>)), It("t", LeafHi)>>))>>),
    Doc(0, <<>>, "raise", "",
        <<It("$import", ListV(<<"b.yaml">>)), It("k", Str(<<"A">>)),
          It("+a", Dict(<<It("t", LeafHi)>>))>>),
    Plain(<<It("$import", ListV(<<"a.yaml">>)), It("k", Str(<<"A">>))>>) }

\* the documents b.yaml may be
PoolB == {
    Doc(0, <<>>, "ignore", "",
        <<It("j", Str(<<"C">>)), It("k", Str(<<"B">>)),
          It("+a", Dict(<<It("t", Dict(<<It("fr", Str(<<"Y", "o">>))>>))>>))>>),
    Plain(<<It("$import", ListV(<<"a.yaml">>)), It("k", Str(<<"B">>))>>),
    Doc(0, <<"a">>, "", "fr",
        <<It("$who", Str(<<"A", "l">>)),
          It("t", Dict(<<It("en", Str(<<"Y", "o", " ", "{", "n", "}">>)),
                         It("wrap", Str(<<"[", "{", " ", "}", "]">>))>>))>>) }

\* c.yaml imports b.yaml into its section a and declares a root variable
NestedImport ==
    Plain(<<It("+a", Dict(<<It("$import", ListV(<<"b.yaml">>))>>)),
            It("$n", Str(<<"R">>))>>)

\* the documents c.yaml may be
PoolC == {
    NestedImport,
    Plain(<<It("g", Str(<<"G">>)), It("k", Dict(<<It("en", Str(<<"x">>))>>))>>),
    Plain(<<It("$import", Str(<<"b">>))>>),
    Plain(<<It("g", Str(<<"G">>)), It("$import", ListV(<<"x.yaml">>))>>),
    NotYaml,
    Doc(0, <<>>, "bogus", "", <<It("k", Str(<<"B">>))>>),
    Doc(0, <<>>, "", "e_", <<It("g", Str(<<"G">>))>>),
    Doc(2, <<>>, "", "", <<It("k", Str(<<"A">>))>>) }

Paths == {"a.yaml", "b.yaml", "c.yaml", "x.yaml"}
Files(a, b, c) ==
    ("a.yaml" :> a) @@ ("b.yaml" :> b) @@ ("c.yaml" :> c) @@ ("x.yaml" :> NoFile)
\* the plain documents a.yaml and b.yaml
PlainA == CHOOSE a \in PoolA : ~HasKey(a.content, "$import") /\ a.merge_conflict = ""
PlainB == CHOOSE b \in PoolB : ~HasKey(b.content, "$import") /\ b.section = <<>>
\* every a.yaml with every b.yaml
FileSystemsAB == {Files(a, b, NestedImport) : a \in PoolA, b \in PoolB}
\* the same, and every c.yaml with the plain a.yaml and b.yaml; x.yaml does not exist
FileSystems == FileSystemsAB \cup {Files(PlainA, PlainB, c) : c \in PoolC}

\* the arguments of load(): one path, or two different documents
LoadArgs == {<<p>> : p \in Paths}
            \cup {pq \in (Paths \ {"x.yaml"}) \X (Paths \ {"x.yaml"}) : pq[1] # pq[2]}

\* --------------------------------------------------------------- bounds

MaxLoads == 2
MaxNodes == 1

\* ------------------------------------------------------------- the calls

NoNode == [path |-> <<>>, section |-> TRUE, locale |-> "", default_locale |-> "",
           variables |-> RootVars]
NoCall == [op |-> "init", self |-> NoNode, name |-> "", paths |-> <<>>, err |-> "",
           pre_node |-> Dict(<<>>), pre_variables |-> (RootVars :> <<>>),
           log |-> <<>>, val |-> None, made |-> NoNode]
NoLoad == [merged |-> <<>>, load_err |-> "not loaded"]

\* the caller holds on to the last MaxNodes node copies
Keep(made) == IF Len(nodes) < MaxNodes THEN Append(nodes, made)
              ELSE Append(Tail(nodes), made)

MatcherIdle == [requested |-> "", available |-> <<>>, result |-> "", done |-> FALSE]
RendererIdle == [node |-> Dict(<<>>), locale |-> "", default_locale |-> "",
                 variables |-> <<>>, overrides |-> <<>>, panic_on_missing |-> FALSE,
                 done |-> FALSE, err |-> "", val |-> None]

\* Tie.__init__ with an empty path (core.py:46-56): nothing is loaded yet
Init ==
    /\ fs \in FileSystems
    /\ arg \in [merge_conflict : {"", "raise", "ignore"}, default_locale : {"", "en"},
                use_fallbacks : {TRUE}, panic_on_missing : {FALSE}]
    /\ _node = Dict(<<>>)
    /\ _variables = (RootVars :> <<>>)
    /\ _merge_conflict = arg.merge_conflict
    /\ _default_locale = arg.default_locale
    /\ _locale = ""
    /\ _loaded_files = {}
    /\ version = 0
    /\ nodes = <<>>
    /\ loads = 0
    /\ last = NoCall
    /\ hist = NoLoad
    /\ m = MatcherIdle
    /\ r = RendererIdle

\* the loop goes on after path i, unless loading it failed
RECURSIVE LoadFrom(_, _, _, _)
LoadNext(one, paths, i) ==
    IF one.err # "" THEN one ELSE LoadFrom(paths, i + 1, one.target, one.st)

\* core.py:59-71, the loop of load() over paths from entry i
LoadFrom(paths, i, target, st) ==
    IF i > Len(paths) THEN Done(target, st)
    ELSE LoadNext(LoadYaml(paths[i], target, st, 1), paths, i)

\* core.py:72, self._extract_variables() once every path is loaded; the
\* instance after the call that ended as res
Loaded(paths, res, ex) ==
    /\ _node' = IF res.err = "" THEN Dict(ex.content) ELSE res.target
    /\ _variables' = IF res.err = "" THEN [_variables EXCEPT ![RootVars] = ex.variables]
                     ELSE _variables
    /\ _merge_conflict' = res.st.mc
    /\ _default_locale' = res.st.dl
    /\ _locale' = res.st.loc
    /\ _loaded_files' = res.st.loaded
    /\ version' = res.st.version
    /\ last' = [NoCall EXCEPT !.op = "load", !.paths = paths, !.err = res.err,
                              !.pre_node = _node, !.pre_variables = _variables,
                              !.log = res.st.log]
    /\ hist' = [merged |-> hist.merged \o res.st.log, load_err |-> res.err]

LoadedFrom(paths, res) ==
    Loaded(paths, res, ExtractVariables(res.target.d, _variables[RootVars]))

\* Tie.load(*paths) on the root instance
Load(paths) ==
    /\ loads < MaxLoads
    /\ LoadedFrom(paths,
                  LoadFrom(paths, 1, _node,
                           [mc |-> _merge_conflict, dl |-> _default_locale, loc |-> _locale,
                            loaded |-> _loaded_files, version |-> version, log |-> <<>>]))
    /\ loads' = loads + 1
    /\ UNCHANGED <<fs, arg, nodes, m, r>>

\* the caller and the heap after node.name ended as got
Got(i, name, got) ==
    /\ _node' = got.tree
    /\ _variables' = got.variables
    /\ nodes' = IF got.err = "" THEN Keep(got.made) ELSE nodes
    /\ last' = [NoCall EXCEPT !.op = "get", !.self = Node(i), !.name = name, !.err = got.err,
                              !.pre_node = _node, !.pre_variables = _variables,
                              !.made = got.made]

\* node.name / node[name]: Tie.__getattr__, Tie.__getitem__
Get(i, name) ==
    /\ Got(i, name, GetAttr(Node(i), name, _node, _variables))
    /\ UNCHANGED <<fs, arg, _merge_conflict, _default_locale, _locale, _loaded_files,
                   version, loads, hist, m, r>>

\* the heap after list(node) ended as it
Iterated(i, it) ==
    /\ _node' = it.tree
    /\ _variables' = it.variables
    /\ last' = [NoCall EXCEPT !.op = "iter", !.self = Node(i), !.err = it.err,
                              !.pre_node = _node, !.pre_variables = _variables]

\* list(node): Tie.__iter__
Iter(i) ==
    /\ Iterated(i, Iterate(Node(i), _node, _variables))
    /\ UNCHANGED <<fs, arg, _merge_conflict, _default_locale, _locale, _loaded_files,
                   version, nodes, loads, hist, m, r>>

\* the caller after node.set_locale(locale) ended as set
LocaleChosen(i, locale, set) ==
    /\ nodes' = IF set.err = "" THEN Keep(set.made) ELSE nodes
    /\ last' = [NoCall EXCEPT !.op = "set_locale", !.self = Node(i), !.name = locale,
                              !.err = set.err, !.pre_node = _node,
                              !.pre_variables = _variables, !.made = set.made]

\* node.set_locale(locale)
SetLocale(i, locale) ==
    /\ LocaleChosen(i, locale, SetLocaleOf(Node(i), locale))
    /\ UNCHANGED <<fs, arg, _node, _variables, _merge_conflict, _default_locale, _locale,
                   _loaded_files, version, loads, hist, m, r>>

\* the caller after node(**overrides) ended as c
Called(i, c) ==
    last' = [NoCall EXCEPT !.op = "call", !.self = Node(i), !.err = c.err, !.val = c.val,
                           !.pre_node = _node, !.pre_variables = _variables]

\* node(**overrides): Tie.__call__
CallAct(i, overrides) ==
    /\ Called(i, CallNode(Node(i), overrides, _node, _variables))
    /\ UNCHANGED <<fs, arg, _node, _variables, _merge_conflict, _default_locale, _locale,
                   _loaded_files, version, nodes, loads, hist, m, r>>

\* the heap after node.render_tree(...) ended as t
TreeRendered(i, t) ==
    /\ _node' = t.tree
    /\ _variables' = t.variables
    /\ last' = [NoCall EXCEPT !.op = "render_tree", !.self = Node(i), !.err = t.err,
                              !.val = t.val, !.pre_node = _node,
                              !.pre_variables = _variables]

\* node.render_tree(one_locale_only, **overrides)
RenderTree(i, one_locale_only, overrides) ==
    /\ TreeRendered(i, RenderTreeOf(Node(i), one_locale_only, overrides, _node, _variables))
    /\ UNCHANGED <<fs, arg, _merge_conflict, _default_locale, _locale, _loaded_files,
                   version, nodes, loads, hist, m, r>>

Names == {"a", "k", "z", "t"}
LocaleArgs == {"", "de", "e_"}
Overrides == {<<>>, <<It("n", Str(<<"A", "l">>))>>}

\* the instance is made with an empty path and documents are loaded into it
NextLoad == \E paths \in LoadArgs : Load(paths)

SpecLoad == Init /\ [][NextLoad]_vars

\* documents are loaded into the instance once, and it is navigated and rendered
NextNav ==
    \/ \E path \in Paths : loads = 0 /\ Load(<<path>>)
    \/ \E i \in NodeRefs, name \in Names : Get(i, name)
    \/ \E i \in NodeRefs : Iter(i)
    \/ \E i \in NodeRefs, locale \in LocaleArgs : SetLocale(i, locale)
    \/ \E i \in NodeRefs, overrides \in Overrides : CallAct(i, overrides)
    \/ \E i \in NodeRefs, one \in BOOLEAN, overrides \in Overrides :
          RenderTree(i, one, overrides)

InitNav == Init /\ fs \in FileSystemsAB /\ arg.merge_conflict = "" /\ arg.default_locale = ""

SpecNav == InitNav /\ [][NextNav]_vars

\* ------------------------------------------- the locale matcher on its own

MaxAvailable == 2

\* locale codes, well formed or not in their letter case
Codes == DOMAIN Split \ {"", "wrap", "e_"}
\* the keys of a text leaf: up to MaxAvailable different codes, in document order
RECURSIVE ListsOf(_)
ListsOf(n) ==
    IF n = 0 THEN {<<>>}
    ELSE LET shorter == ListsOf(n - 1) IN
         shorter \cup {Append(l, c) : l \in {x \in shorter : Len(x) = n - 1}, c \in Codes}
AvailableLists == {l \in ListsOf(MaxAvailable) : \A i, j \in DOMAIN l : i # j => l[i] # l[j]}

\* the main instance, left alone
Idle ==
    /\ fs = Files(PlainA, PlainB, NestedImport)
    /\ arg = [merge_conflict |-> "", default_locale |-> "", use_fallbacks |-> TRUE,
              panic_on_missing |-> FALSE]
    /\ _node = Dict(<<>>)
    /\ _variables = (RootVars :> <<>>)
    /\ _merge_conflict = ""
    /\ _default_locale = ""
    /\ _locale = ""
    /\ _loaded_files = {}
    /\ version = 0
    /\ nodes = <<>>
    /\ loads = 0
    /\ last = NoCall
    /\ hist = NoLoad

InitMatch ==
    /\ Idle
    /\ m \in [requested : Codes, available : AvailableLists, result : {""}, done : {FALSE}]
    /\ r = RendererIdle

\* Tie._get_best_locale_match(m.requested, m.available) is called
Match ==
    /\ ~m.done
    /\ m' = [m EXCEPT !.result = BestLocaleMatch(m.requested, m.available), !.done = TRUE]
    /\ UNCHANGED <<fs, arg, _node, _variables, _merge_conflict, _default_locale, _locale,
                   _loaded_files, version, nodes, loads, last, hist, r>>

SpecMatch == InitMatch /\ [][Match]_vars

\* ------------------------------------------------ the renderer on its own

HiName == Str(<<"H", "i", " ", "{", "n", "a", "m", "e", "}">>)
Sam == Str(<<"S", "a", "m">>)
Bonjour == Str(<<"B", "o", "n", "j", "o", "u", "r">>)

\* the contents of a text node
Leaves == {
    Dict(<<It("en", HiName), It("wrap", Str(<<"[", " ", "]">>))>>),
    Dict(<<It("en", HiName), It("wrap", Str(<<"[", "{", " ", "}", "]">>))>>),
    Dict(<<It("en", HiName), It("wrap", Str(<<"[", "{", "}", "]", " ", "{", "w", "h", "o", "}">>))>>),
    Dict(<<It("en", Str(<<"H", "i", " ", "{", " ", "n", "a", "m", "e", " ", "}">>)),
           It("fr", Str(<<"{", "n", "a", "m", "e", "}", "!">>))>>),
    Dict(<<It("fr", Bonjour)>>),
    Dict(<<It("fr", Bonjour), It("wrap", Str(<<"<", "{", " ", " ", "}", ">">>))>>),
    Dict(<<It("en-US", HiName), It("wrap", Str(<<"}", "{", " ", "}">>))>>) }

\* self._variables of the node
LocalVariables == {
    <<>>,
    <<It("name", Sam)>>,
    <<It("name", Str(<<"$", "w", "h", "o">>)), It("who", Sam)>>,
    <<It("who", Dict(<<It("en", Sam), It("fr", Str(<<"S", "a", "m", "u", "e", "l">>))>>)),
      It("name", Str(<<"$", "w", "h", "o">>))>>,
    <<It("name", Str(<<"$", "n">>))>> }

\* the **vars of the call
CallVars == {<<>>, <<It("name", Sam)>>, <<It("who", Str(<<"A", "l">>))>>}

InitRender ==
    /\ Idle
    /\ m = MatcherIdle
    /\ r \in [node : Leaves, locale : {"en", "de", "fr", "en-US"},
              default_locale : {"en", "fr"}, variables : LocalVariables,
              overrides : CallVars, panic_on_missing : BOOLEAN,
              done : {FALSE}, err : {""}, val : {None}]

\* the outcome of the call
RenderedAs(c) == r' = [r EXCEPT !.done = TRUE, !.err = c.err, !.val = c.val]

\* a text-mode node of an instance made with panic_on_missing is called:
\* Tie.__call__(**r.overrides)
Render ==
    /\ ~r.done
    /\ RenderedAs(Call(r.node, FALSE, r.locale, r.default_locale, r.variables, r.overrides))
    /\ UNCHANGED <<fs, arg, _node, _variables, _merge_conflict, _default_locale, _locale,
                   _loaded_files, version, nodes, loads, last, hist, m>>

SpecRender == InitRender /\ [][Render]_vars

\* ===================================================================
\* The properties
\* ===================================================================

\* -------------------------------------------------------------- C3

\* the positions of the available codes that are, case-insensitively, the
\* requested code or one of its ancestors
AncestorsIn(requested, available) ==
    {i \in DOMAIN available :
        \E n \in 1..Len(LowerParts(requested)) :
            LowerParts(available[i]) = SubSeq(LowerParts(requested), 1, n)}

\* the positions of the available codes that start with code + "-"
ChildrenIn(code, available) ==
    {i \in DOMAIN available :
        /\ Len(LowerParts(available[i])) > Len(code)
        /\ SubSeq(LowerParts(available[i]), 1, Len(code)) = code}

MatchedOf(requested, available, result) ==
    LET parts == LowerParts(requested)
        ancestors == AncestorsIn(requested, available)
        children == ChildrenIn(parts, available)
        same_base == ChildrenIn(<<parts[1]>>, available)
    IN IF ancestors # {}
       THEN \E i \in ancestors :
               /\ result = available[i]
               /\ \A j \in ancestors :
                     Len(LowerParts(available[j])) <= Len(LowerParts(available[i]))
       ELSE IF children # {} THEN \E i \in children : result = available[i]
       ELSE IF same_base # {} THEN \E i \in same_base : result = available[i]
       ELSE result = NoMatch

\* C3: the best match is, in the available code's own casing, the available
\* code equal (ignoring case) to the longest prefix of the requested subtags;
\* failing that an available code that starts with requested + "-"; failing
\* that one that starts with the first requested subtag + "-"; failing that
\* nothing.  zh-Hant-HK among zh-Hant, zh gives zh-Hant; el among el-GR gives
\* el-GR; en-AU among en-CA gives en-CA; fr among de gives nothing.
C3_BestMatch ==
    m.done =>
        /\ MatchedOf(m.requested, m.available, m.result)
        /\ (m.requested = "zh-Hant-HK" /\ Range(m.available) = {"zh-Hant", "zh"})
              => m.result = "zh-Hant"
        /\ (m.requested = "el" /\ m.available = <<"el-GR">>) => m.result = "el-GR"
        /\ (m.requested = "en-AU" /\ m.available = <<"en-CA">>) => m.result = "en-CA"
        /\ (m.requested = "fr" /\ m.available = <<"de">>) => m.result = NoMatch

\* C3: an ancestor is matched although the shorter ancestor comes first
C3_Witness ==
    /\ m.done
    /\ m.requested = "zh-Hant-HK"
    /\ m.available = <<"zh", "zh-Hant">>
    /\ m.result = "zh-Hant"

\* -------------------------------------------------------------- C4

BraceFree(s) == \A i \in DOMAIN s : s[i] \notin {"{", "}"}

\* where the one placeholder "{ }" of a wrap template begins and ends, when
\* the rest of the template has no brace
PlaceholderOf(wrap) ==
    {ij \in (DOMAIN wrap) \X (DOMAIN wrap) :
        /\ ij[1] < ij[2]
        /\ wrap[ij[1]] = "{"
        /\ wrap[ij[2]] = "}"
        /\ \A x \in (ij[1] + 1)..(ij[2] - 1) : wrap[x] = " "
        /\ BraceFree(SubSeq(wrap, 1, ij[1] - 1))
        /\ BraceFree(SubSeq(wrap, ij[2] + 1, Len(wrap)))}

\* the active or the default locale matches a key of the leaf
Resolved(leaf, locale, default_locale) ==
    \/ ~MatchedOf(locale, KeySeq(leaf.d), NoMatch)
    \/ ~MatchedOf(default_locale, KeySeq(leaf.d), NoMatch)

\* the value of a variable in the local variables with the overrides on top
EffectiveValue(variables, overrides, name) ==
    IF HasKey(overrides, name) THEN GetKey(overrides, name) ELSE GetKey(variables, name)

LeafWrapBlank == Dict(<<It("en", HiName), It("wrap", Str(<<"[", " ", "]">>))>>)
LeafWrapBraces == Dict(<<It("en", HiName), It("wrap", Str(<<"[", "{", " ", "}", "]">>))>>)
WrappedHiSam == Str(<<"[", "H", "i", " ", "S", "a", "m", "]">>)

\* C4, as the specification states it: the leaf {en: "Hi {name}", wrap: "[ ]"}
\* rendered with active locale en and name = "Sam" yields "[Hi Sam]"
C4_WrapBlankExample ==
    (/\ r.done
     /\ r.node = LeafWrapBlank
     /\ r.locale = "en"
     /\ EffectiveValue(r.variables, r.overrides, "name") = Sam)
        => r.err = "" /\ r.val = WrappedHiSam

\* C4: a leaf with a wrap template renders as the template with the rendering
\* of the leaf's translation in the place of its "{ }" placeholder (a brace,
\* any spaces, a brace), the variables replaced; a template without a brace
\* renders as itself, without the translation.  {en: "Hi {name}", wrap:
\* "[{ }]"} with en and name = "Sam" yields "[Hi Sam]"; wrap "[ ]" yields "[ ]".
C4_WrapPlaceholder ==
    (r.done /\ HasKey(r.node.d, "wrap")) =>
        LET wrap == GetKey(r.node.d, "wrap").s
            bare == Call(Dict(DelKey(r.node.d, "wrap")), FALSE, r.locale,
                         r.default_locale, r.variables, r.overrides)
        IN /\ \A ij \in PlaceholderOf(wrap) :
                 Resolved(r.node, r.locale, r.default_locale) =>
                    /\ r.err = bare.err
                    /\ r.err = "" =>
                          r.val = Str(SubSeq(wrap, 1, ij[1] - 1) \o bare.val.s
                                      \o SubSeq(wrap, ij[2] + 1, Len(wrap)))
           /\ (BraceFree(wrap) /\ r.err = "") => r.val = Str(wrap)
           /\ (/\ r.node = LeafWrapBraces
               /\ r.locale = "en"
               /\ EffectiveValue(r.variables, r.overrides, "name") = Sam)
                 => r.err = "" /\ r.val = WrappedHiSam
           /\ (/\ r.node = LeafWrapBlank
               /\ r.locale = "en"
               /\ EffectiveValue(r.variables, r.overrides, "name") = Sam)
                 => r.err = "" /\ r.val = Str(<<"[", " ", "]">>)

\* C4: the leaf {en: "Hi {name}", wrap: "[{ }]"} was rendered for en with
\* name = "Sam" passed by the caller, and gave "[Hi Sam]"
C4_Witness ==
    /\ r.done
    /\ r.node = LeafWrapBraces
    /\ r.locale = "en"
    /\ r.variables = <<>>
    /\ r.overrides = <<It("name", Sam)>>
    /\ r.val = WrappedHiSam

\* -------------------------------------------------------------- C5

\* C5: with panic_on_missing, rendering a leaf none of whose keys matches the
\* active or the default locale fails with the missing-translation error
\* (KeyError, the exception Tie.__call__ documents for it), whatever the
\* variables: {fr: "Bonjour"} under de with default en fails
C5_StrictMissingTranslation ==
    (/\ r.done
     /\ r.panic_on_missing
     /\ ~Resolved(r.node, r.locale, r.default_locale))
        => r.err = "KeyError"

\* -------------------------------------------------------------- C1

\* the paths a document content names in its $import lists, at every level
RECURSIVE ImportsIn(_)
ImportsIn(items) ==
    UNION {IF items[i].k = "$import"
           THEN (IF items[i].v.t = "list" THEN Range(items[i].v.s) ELSE {})
           ELSE IF IsDict(items[i].v) THEN ImportsIn(items[i].v.d)
           ELSE {} : i \in DOMAIN items}

ImportsOf(path) ==
    IF path \in DOMAIN fs /\ fs[path].exists /\ fs[path].yaml_ok
    THEN ImportsIn(fs[path].content) ELSE {}

\* the documents reached from a set of documents through at most n imports
RECURSIVE ImportedWithin(_, _)
ImportedWithin(paths, n) ==
    IF n = 0 THEN {}
    ELSE LET direct == UNION {ImportsOf(p) : p \in paths}
         IN direct \cup ImportedWithin(direct, n - 1)

ImportedFrom(path) == ImportedWithin({path}, Cardinality(DOMAIN fs))

\* a cycle of imports can be reached from the path
CycleReachable(path) ==
    \E q \in {path} \cup ImportedFrom(path) : q \in ImportedFrom(q)

\* C1: loading a document from which a cycle of imports can be reached ends
\* with the cyclic-import error
C1_CyclicImportDetected ==
    (/\ last.op = "load"
     /\ Len(last.paths) = 1
     /\ CycleReachable(last.paths[1]))
        => last.err = "CyclicImport"

\* -------------------------------------------------------------- C2

\* the leaf keys a document content declares, as [path, value]: the keys that
\* lead to the leaf, the section keys first; "$" keys are variables
RECURSIVE LeavesOf(_)
LeavesOf(items) ==
    UNION {IF StartsWith(items[i].k, "$") THEN {}
           ELSE IF IsDict(items[i].v)
           THEN {[path |-> <<items[i].k>> \o l.path, value |-> l.value] :
                    l \in LeavesOf(items[i].v.d)}
           ELSE {[path |-> <<items[i].k>>, value |-> items[i].v]} : i \in DOMAIN items}

\* the leaf keys of the document at a path, under its parent section
Declared(path) == LeavesOf(WrapSections(fs[path].section, fs[path].content))

\* the document has a "$import" key at some level
RECURSIVE HasImport(_)
HasImport(items) ==
    \E i \in DOMAIN items :
        items[i].k = "$import" \/ (IsDict(items[i].v) /\ HasImport(items[i].v.d))

\* no leaf key of one document is a section of the other
SameKinds(d1, d2) ==
    \A x \in d1, y \in d2 :
        /\ ~(Len(x.path) < Len(y.path) /\ SubSeq(y.path, 1, Len(x.path)) = x.path)
        /\ ~(Len(y.path) < Len(x.path) /\ SubSeq(x.path, 1, Len(y.path)) = y.path)

\* the tree holds the value under the keys of the path
RECURSIVE Holds(_, _, _)
Holds(tree, path, value) ==
    IF path = <<>> THEN tree = value
    ELSE /\ IsDict(tree)
         /\ HasKey(tree.d, Head(path))
         /\ Holds(GetKey(tree.d, Head(path)), Tail(path), value)

\* two documents without imports were merged into the instance, in this
\* order, the second one by the last call
TwoMerged(p1, p2) ==
    /\ last.op = "load"
    /\ last.log # <<>>
    /\ Len(hist.merged) = 2
    /\ hist.merged[1].path = p1
    /\ hist.merged[2].path = p2
    /\ ~HasImport(fs[p1].content)
    /\ ~HasImport(fs[p2].content)
    /\ SameKinds(Declared(p1), Declared(p2))

C9_FailedLoadLeavesTree ==
    (last.op = "load" /\ last.err # "") => _node = last.pre_node

\* ------------------------------------------------------------- C10

\* the policy of a document by the rule of the specification
PolicyByRule(path) ==
    IF arg.merge_conflict # "" THEN arg.merge_conflict
    ELSE IF fs[path].merge_conflict # "" THEN fs[path].merge_conflict
    ELSE "override"

\* C10: every document merged by a load() is merged under the constructor's
\* merge_conflict if one was given, else under the policy the document
\* declares, else under 'override'
C10_PolicyPerDocument ==
    last.op = "load" =>
        \A i \in DOMAIN last.log : last.log[i].policy = PolicyByRule(last.log[i].path)

\* -------------------------------------------------------------- C6

\* C6: get(node, name) on a section node fails with not-found exactly when
\* the node has neither the key "+name" nor the key name, whatever their
\* values; else it makes a section node for "+name" if that key exists, and a
\* text node for name if only that one exists; on a text node it fails with a
\* type error
C6_GetFindsKeys ==
    last.op = "get" =>
        LET content == At(last.pre_node, last.self.path).d
            section == HasKey(content, Plus(last.name))
            text == HasKey(content, last.name)
        IN IF ~last.self.section THEN last.err = "TypeError"
           ELSE /\ last.err = "NotFound" <=> (~section /\ ~text)
                /\ section =>
                      /\ last.err = ""
                      /\ last.made.section
                      /\ last.made.path = Append(last.self.path, Plus(last.name))
                /\ (text /\ ~section) =>
                      /\ last.err = ""
                      /\ ~last.made.section
                      /\ last.made.path = Append(last.self.path, last.name)

\* -------------------------------------------------------------- C7

\* C7: once a load() has completed, no get, iteration, set_locale, render or
\* render_tree call changes the merged tree
C7_TreeIsStable ==
    (/\ hist.load_err = ""
     /\ last.op \in {"get", "iter", "set_locale", "call", "render_tree"})
        => _node = last.pre_node

\* -------------------------------------------------------------- C8

\* the variables a content declares: its "$" keys, without the "$"
OwnVariables(content) ==
    {[k |-> Rest(content[i].k), v |-> content[i].v] :
        i \in {j \in DOMAIN content : StartsWith(content[j].k, "$")}}

\* C8: the variable table of a node made by get() holds the "$" keys of the
\* node's own content and nothing else, and making it leaves the variable
\* table of the node it was made from as it was
C8_OwnVariablesOnly ==
    (last.op = "get" /\ last.err = "") =>
        /\ Range(_variables[last.made.variables])
              = OwnVariables(At(last.pre_node, last.made.path).d)
        /\ _variables[last.self.variables] = last.pre_variables[last.self.variables]

====
